---- MODULE Spec2Model ----
(***************************************************************************)
(* Model of the book library web application (src/main.py): the user and   *)
(* book tables, the per-browser login session, and one action per route    *)
(* handler.  Requests carry a valid CSRF token; form fields are the raw    *)
(* strings a browser submits.  Ratings are fixed-point numbers in          *)
(* hundredths (9 is 900, 10.01 is 1001).                                   *)
(***************************************************************************)
EXTENDS Integers, FiniteSets, Sequences, TLC

VARIABLES users, books, session, resp, pending

vars == <<users, books, session, resp, pending>>

\* ---------------------------------------------------------------- bounds
MaxUserId == 2
MaxBookId == 2

\* ---------------------------------------------------------------- inputs
Clients == {"c1", "c2"}
EmailInputs == {"a@x.com", "b@x.com", "bob"}
RegisterPasswords == {"secret1", "pw"}
LoginPasswords == {"secret1", "hunter", ""}
NameInputs == {"Ann", "A"}
TitleInputs == {"Dune", "Emma", ""}
AuthorInputs == {"Herbert", ""}
RatingInputs == {"-1", "0", "10", "10.01", "abc", "missing"}
Salts == {"s1"}
UrlIds == 1..MaxBookId

\* The requests a browser sends: a GET carries no form data, a POST carries
\* one value for every field of the form.
RegisterRequests ==
  {<<"GET", "", "", "">>}
    \cup ({"POST"} \X NameInputs \X EmailInputs \X RegisterPasswords)
LoginRequests ==
  {<<"GET", "", "">>} \cup ({"POST"} \X EmailInputs \X LoginPasswords)
AddRequests ==
  {<<"GET", "", "", "missing">>}
    \cup ({"POST"} \X TitleInputs \X AuthorInputs \X RatingInputs)
EditRequests ==
  {<<"GET", "missing">>} \cup ({"POST"} \X RatingInputs)

NoUser == 0
NoReq == [op |-> "none"]
NaF == -99999

\* ------------------------------------------------------- library helpers
\* float(): the number a submitted string parses to, in hundredths; NaF
\* when float() raises ValueError (not a number) or TypeError (no field).
float(s) ==
  CASE s = "-1" -> -100
    [] s = "0" -> 0
    [] s = "10" -> 1000
    [] s = "10.01" -> 1001
    [] OTHER -> NaF

\* wtforms DataRequired: the field's data must be truthy.
DataRequiredStr(s) == s # ""

\* wtforms DataRequired on a FloatField: the parsed number must be truthy,
\* and 0.0 is not.
DataRequiredFloat(x) == x # NaF /\ x # 0

\* wtforms Email: syntactic check of the address.
Email(s) == s \in {"a@x.com", "b@x.com"}

\* wtforms Length(min, max); max = -1 is no upper limit.
Length(s, min, max) == Len(s) >= min /\ (max = -1 \/ Len(s) <= max)

\* wtforms NumberRange(min, max), bounds in hundredths.
NumberRange(x, min, max) == x # NaF /\ x >= min /\ x <= max

\* werkzeug generate_password_hash / check_password_hash: a salted one-way
\* digest, represented by the pair it was computed from.
generate_password_hash(pw, salt) ==
  [method |-> "pbkdf2:sha256", salt |-> salt, digest |-> <<salt, pw>>]

\* Variant: a verification that accepts every password.
check_password_hash_any(h, pw) == TRUE

check_password_hash(h, pw) == h.digest = <<h.salt, pw>>

\* SQLite rowid assignment for an INTEGER PRIMARY KEY: largest id plus one.
Max(S) == CHOOSE x \in S : \A y \in S : y <= x
NewId(rows) == IF rows = {} THEN 1 ELSE Max({r.id : r \in rows}) + 1

\* ---------------------------------------------------------------- forms
LoginFormValid(method, email, password) ==
  /\ method = "POST"
  /\ DataRequiredStr(email) /\ Email(email)
  /\ DataRequiredStr(password)

RegisterFormValid(method, name, email, password) ==
  /\ method = "POST"
  /\ DataRequiredStr(name) /\ Length(name, 2, 100)
  /\ DataRequiredStr(email) /\ Email(email)
  /\ DataRequiredStr(password) /\ Length(password, 6, -1)

BookFormValid(method, name, author, rating) ==
  /\ method = "POST"
  /\ DataRequiredStr(name)
  /\ DataRequiredStr(author)
  /\ DataRequiredFloat(float(rating)) /\ NumberRange(float(rating), 0, 1000)

\* ------------------------------------------------------------- responses
\* What a request answers: a redirect or a rendered page, the message it
\* flashes, the next= path of a redirect to the login page, and the books a
\* rendered listing shows.
Response(out, flash) == [out |-> out, flash |-> flash, next |-> "", books |-> {}]
Page(out, bs) == [out |-> out, flash |-> "", next |-> "", books |-> bs]

\* ----------------------------------------------------------- flask-login
\* load_user: the User row with this primary key, if any.
load_user(user_id) == {u \in users : u.id = user_id}

\* Variant: a gate that lets every session through.
is_authenticated_always(c) == TRUE

\* current_user.is_authenticated for the browser's session.
is_authenticated(c) == session[c] # NoUser /\ load_user(session[c]) # {}

\* login_manager.unauthorized with login_view = 'login'.
unauthorized(path) ==
  [out |-> "redirect_login", flash |-> "Please log in to access this page.",
   next |-> path, books |-> {}]

\* ----------------------------------------------------------------- queries
UsersByEmail(email) == {u \in users : u.email = email}
BooksByTitle(title) == {b \in books : b.title = title}

\* Variant: a listing query without the owner filter.
AllBooks(user_id) == books

BooksOfUser(user_id) == {b \in books : b.user_id = user_id}

\* Variant: a lookup by primary key alone.
BookByIdOnly(book_id, user_id) == {b \in books : b.id = book_id}

BookByIdAndOwner(book_id, user_id) ==
  {b \in books : b.id = book_id /\ b.user_id = user_id}

\* Variant: a user table without the UNIQUE constraint.
EmailUniqueDropped(rows) == TRUE

\* The UNIQUE constraint on user.email, checked by the store at commit.
EmailUnique(rows) == \A u, v \in rows : u.email = v.email => u = v

\* users: the rows of the user table (id, email, password hash, name).
\* books: the rows of the book table (id, title, author, rating, user_id).
\* session: the user id each browser's session cookie holds, or NoUser.
\* resp: the answer to the last request.
\* pending: per browser, the request whose existence check has run and
\* whose insert is not yet committed, or NoReq.
TypeOK ==
  /\ \A u \in users :
       /\ u.id \in 1..MaxUserId
       /\ Email(u.email)
       /\ Length(u.name, 2, 100)
       /\ u.password.method = "pbkdf2:sha256"
  /\ \A b \in books :
       /\ b.id \in 1..MaxBookId
       /\ b.title # "" /\ b.author # ""
       /\ b.rating \in 0..1000
       /\ \E u \in users : u.id = b.user_id
  /\ \A a, b \in books : a.id = b.id => a = b
  /\ \A u, v \in users : u.id = v.id => u = v
  /\ \A c \in Clients : session[c] = NoUser \/ \E u \in users : u.id = session[c]
  /\ \A c \in Clients : pending[c].op \in {"none", "register", "add"}

Init ==
  /\ users = {}
  /\ books = {}
  /\ session = [c \in Clients |-> NoUser]
  /\ resp = Response("none", "")
  /\ pending = [c \in Clients |-> NoReq]

\* ------------------------------------------------------------ /register
NewUser(name, email, password, salt) ==
  [id |-> NewId(users), email |-> email, name |-> name,
   password |-> generate_password_hash(password, salt)]

\* db.session.add(new_user); db.session.commit(); login_user(new_user).
\* The commit raises IntegrityError when the email is already stored, and
\* the request then ends as an unhandled failure.
CommitUser(c, new_user) ==
  IF EmailUnique(users \cup {new_user})
  THEN /\ users' = users \cup {new_user}
       /\ session' = [session EXCEPT ![c] = new_user.id]
       /\ resp' = Response("redirect_home", "")
  ELSE /\ resp' = Response("error_500", "")
       /\ UNCHANGED <<users, session>>

register(c, method, name, email, password, salt) ==
  /\ pending[c] = NoReq
  /\ IF ~RegisterFormValid(method, name, email, password)
     THEN /\ resp' = Response("render_register", "")
          /\ UNCHANGED <<users, session>>
     ELSE IF UsersByEmail(email) # {}
     THEN /\ resp' = Response("redirect_login", "Email already registered. Please login.")
          /\ UNCHANGED <<users, session>>
     ELSE /\ NewId(users) <= MaxUserId
          /\ CommitUser(c, NewUser(name, email, password, salt))
  /\ UNCHANGED <<books, pending>>

\* The two halves of a register request whose existence check has passed
\* and whose insert has not yet been committed.
register_check(c, method, name, email, password, salt) ==
  /\ pending[c] = NoReq
  /\ RegisterFormValid(method, name, email, password)
  /\ UsersByEmail(email) = {}
  /\ pending' = [pending EXCEPT ![c] =
        [op |-> "register", name |-> name, email |-> email,
         password |-> password, salt |-> salt]]
  /\ UNCHANGED <<users, books, session, resp>>

register_commit(c) ==
  /\ pending[c].op = "register"
  /\ NewId(users) <= MaxUserId
  /\ CommitUser(c, NewUser(pending[c].name, pending[c].email,
                           pending[c].password, pending[c].salt))
  /\ pending' = [pending EXCEPT ![c] = NoReq]
  /\ UNCHANGED books

\* --------------------------------------------------------------- /login
login(c, method, email, password) ==
  /\ pending[c] = NoReq
  /\ IF ~LoginFormValid(method, email, password)
     THEN /\ resp' = Response("render_login", "")
          /\ UNCHANGED session
     ELSE IF \E u \in UsersByEmail(email) : check_password_hash(u.password, password)
     THEN /\ \E u \in UsersByEmail(email) :
               /\ check_password_hash(u.password, password)
               /\ session' = [session EXCEPT ![c] = u.id]
          /\ resp' = Response("redirect_home", "")
     ELSE /\ resp' = Response("redirect_login", "Invalid email or password")
          /\ UNCHANGED session
  /\ UNCHANGED <<users, books, pending>>

\* -------------------------------------------------------------- /logout
logout(c) ==
  /\ pending[c] = NoReq
  /\ IF ~is_authenticated(c)
     THEN /\ resp' = unauthorized("/logout")
          /\ UNCHANGED session
     ELSE /\ session' = [session EXCEPT ![c] = NoUser]
          /\ resp' = Response("redirect_login", "")
  /\ UNCHANGED <<users, books, pending>>

\* -------------------------------------------------------------------- /
home(c) ==
  /\ pending[c] = NoReq
  /\ resp' = Page("render_index",
                  IF is_authenticated(c) THEN BooksOfUser(session[c]) ELSE {})
  /\ UNCHANGED <<users, books, session, pending>>

\* ----------------------------------------------------------------- /add
NewBook(title, author, rating, user_id) ==
  [id |-> NewId(books), title |-> title, author |-> author,
   rating |-> rating, user_id |-> user_id]

\* Variant: an insert that looks the title up again before it commits.
CommitBookIfNew(new_book) ==
  /\ books' = IF \E b \in books : b.title = new_book.title
              THEN books ELSE books \cup {new_book}
  /\ resp' = Response("redirect_home", "")

\* db.session.add(new_book); db.session.commit(); redirect home.
CommitBook(new_book) ==
  /\ books' = books \cup {new_book}
  /\ resp' = Response("redirect_home", "")

add(c, method, name, author, rating) ==
  /\ pending[c] = NoReq
  /\ IF ~is_authenticated(c)
     THEN /\ resp' = unauthorized("/add")
          /\ UNCHANGED books
     ELSE IF ~BookFormValid(method, name, author, rating)
     THEN /\ resp' = Response("render_add", "")
          /\ UNCHANGED books
     ELSE IF Cardinality(BooksByTitle(name)) > 1
     THEN \* scalar_one_or_none raises MultipleResultsFound
          /\ resp' = Response("error_500", "")
          /\ UNCHANGED books
     ELSE IF BooksByTitle(name) # {}
     THEN /\ resp' = Response("redirect_home", "")
          /\ UNCHANGED books
     ELSE /\ NewId(books) <= MaxBookId
          /\ CommitBook(NewBook(name, author, float(rating), session[c]))
  /\ UNCHANGED <<users, session, pending>>

\* The two halves of an add request whose title check has passed and whose
\* insert has not yet been committed.
add_check(c, method, name, author, rating) ==
  /\ pending[c] = NoReq
  /\ is_authenticated(c)
  /\ BookFormValid(method, name, author, rating)
  /\ BooksByTitle(name) = {}
  /\ pending' = [pending EXCEPT ![c] =
        [op |-> "add", title |-> name, author |-> author,
         rating |-> float(rating), user_id |-> session[c]]]
  /\ UNCHANGED <<users, books, session, resp>>

add_commit(c) ==
  /\ pending[c].op = "add"
  /\ NewId(books) <= MaxBookId
  /\ CommitBook(NewBook(pending[c].title, pending[c].author,
                        pending[c].rating, pending[c].user_id))
  /\ pending' = [pending EXCEPT ![c] = NoReq]
  /\ UNCHANGED <<users, session>>

\* ------------------------------------------------------- /edit/<book_id>
NotFoundOrForbidden == Response("redirect_home", "Book not found or access denied")

RatingInRange(x) == x # NaF /\ 0 <= x /\ x <= 1000

\* Variant: an UPDATE that filters on the owner alone.
SetRatingAll(rows, book, x) ==
  {IF b.user_id = book.user_id THEN [b EXCEPT !.rating = x] ELSE b : b \in rows}

\* book_to_update.rating = new_rating; db.session.commit().
SetRating(rows, book, x) ==
  (rows \ {book}) \cup {[book EXCEPT !.rating = x]}

edit(c, method, book_id, rating) ==
  /\ pending[c] = NoReq
  /\ IF ~is_authenticated(c)
     THEN /\ resp' = unauthorized("/edit")
          /\ UNCHANGED books
     ELSE IF BookByIdAndOwner(book_id, session[c]) = {}
     THEN /\ resp' = NotFoundOrForbidden
          /\ UNCHANGED books
     ELSE \E book_to_update \in BookByIdAndOwner(book_id, session[c]) :
            IF method = "POST" /\ RatingInRange(float(rating))
            THEN /\ books' = SetRating(books, book_to_update, float(rating))
                 /\ resp' = Response("redirect_home", "")
            ELSE /\ resp' = Response("render_edit", "")
                 /\ UNCHANGED books
  /\ UNCHANGED <<users, session, pending>>

\* ----------------------------------------------------- /delete/<book_id>
delete(c, book_id) ==
  /\ pending[c] = NoReq
  /\ IF ~is_authenticated(c)
     THEN /\ resp' = unauthorized("/delete")
          /\ UNCHANGED books
     ELSE IF BookByIdAndOwner(book_id, session[c]) = {}
     THEN /\ resp' = NotFoundOrForbidden
          /\ UNCHANGED books
     ELSE \E book_to_delete \in BookByIdAndOwner(book_id, session[c]) :
            /\ books' = books \ {book_to_delete}
            /\ resp' = Response("redirect_home", "")
  /\ UNCHANGED <<users, session, pending>>

\* ------------------------------------------------------- specifications
\* Requests served one at a time.
Next ==
  \/ \E c \in Clients, q \in RegisterRequests, s \in Salts :
        register(c, q[1], q[2], q[3], q[4], s)
  \/ \E c \in Clients, q \in LoginRequests : login(c, q[1], q[2], q[3])
  \/ \E c \in Clients : logout(c)
  \/ \E c \in Clients : home(c)
  \/ \E c \in Clients, q \in AddRequests : add(c, q[1], q[2], q[3], q[4])
  \/ \E c \in Clients, i \in UrlIds, q \in EditRequests :
        edit(c, q[1], i, q[2])
  \/ \E c \in Clients, i \in UrlIds : delete(c, i)

Spec == Init /\ [][Next]_vars

\* Register requests of different browsers overlapping: a register may be
\* suspended between its existence check and its commit.
NextRegisterRace ==
  \/ Next
  \/ \E c \in Clients, q \in RegisterRequests, s \in Salts :
        register_check(c, q[1], q[2], q[3], q[4], s)
  \/ \E c \in Clients : register_commit(c)

SpecRegisterRace == Init /\ [][NextRegisterRace]_vars

\* Add requests of different browsers overlapping: an add may be suspended
\* between its title check and its commit.  The requests that create
\* users and sessions and that create and remove books run beside it.
NextAddRace ==
  \/ \E c \in Clients, q \in RegisterRequests, s \in Salts :
        register(c, q[1], q[2], q[3], q[4], s)
  \/ \E c \in Clients, q \in LoginRequests : login(c, q[1], q[2], q[3])
  \/ \E c \in Clients : logout(c)
  \/ \E c \in Clients, q \in AddRequests : add(c, q[1], q[2], q[3], q[4])
  \/ \E c \in Clients, i \in UrlIds : delete(c, i)
  \/ \E c \in Clients, q \in AddRequests :
        add_check(c, q[1], q[2], q[3], q[4])
  \/ \E c \in Clients : add_commit(c)

SpecAddRace == Init /\ [][NextAddRace]_vars


\* ================================================================ claims
\* What the specification calls a rating in [0, 10]: a submitted string
\* that parses as a number between the bounds, both included.
InClosedRange(r) == float(r) # NaF /\ float(r) >= 0 /\ float(r) <= 1000

NoDupEmail == \A u, v \in users : u.email = v.email => u = v

\* C1: no two User records ever share an email, also when the check and
\* the insert of several Register requests interleave, and a Register whose
\* email is already stored (found by its check, or by the store at commit)
\* leaves the user table unchanged.
C1_EmailUnique ==
  [][ /\ NoDupEmail /\ NoDupEmail'
      /\ \/ users' = users
         \/ /\ \A c \in Clients, q \in RegisterRequests, s \in Salts :
                 ~ /\ \E u \in users : u.email = q[3]
                   /\ register(c, q[1], q[2], q[3], q[4], s)
            /\ \A c \in Clients :
                 ~ /\ pending[c].op = "register"
                   /\ \E u \in users : u.email = pending[c].email
                   /\ register_commit(c) ]_vars

\* A Register lost the race: its check passed, another Register committed
\* the same email first, and its own commit was refused.
C1_Witness ==
  /\ resp.out = "error_500"
  /\ Cardinality(users) = 1
  /\ \E c \in Clients : session[c] # NoUser

\* C2: Edit and Delete issued by an authenticated user on a book id owned
\* by another user answer 'Book not found or access denied' with a redirect
\* home, and the book stays in the store with all its fields.
C2_ForeignBookUntouched ==
  [][ \A c \in Clients, i \in UrlIds :
        (session[c] # NoUser /\ \E b \in books : b.id = i /\ b.user_id # session[c])
        => \/ /\ resp'.out = "redirect_home"
              /\ resp'.flash = "Book not found or access denied"
              /\ \A b \in books : b.id = i => b \in books'
           \/ /\ \A q \in EditRequests : ~edit(c, q[1], i, q[2])
              /\ ~delete(c, i) ]_vars

\* Every book id of the store belongs to a user other than the only one
\* logged in, and the last request was answered not-found.
C2_Witness ==
  /\ resp.flash = "Book not found or access denied"
  /\ {b.id : b \in books} = UrlIds
  /\ \E c \in Clients :
       /\ session[c] # NoUser
       /\ \A d \in Clients \ {c} : session[d] = NoUser
       /\ \A b \in books : b.user_id # session[c]

\* C3: without an authenticated session Add, Edit and Delete redirect to
\* login and change no user and no book, and List shows no book whatever
\* the store holds.
C3_AnonymousNoEffect ==
  [][ \A c \in Clients :
        session[c] = NoUser
        => /\ \/ resp'.out = "redirect_login" /\ users' = users /\ books' = books
              \/ /\ \A q \in AddRequests : ~add(c, q[1], q[2], q[3], q[4])
                 /\ \A i \in UrlIds, q \in EditRequests : ~edit(c, q[1], i, q[2])
                 /\ \A i \in UrlIds : ~delete(c, i)
           /\ home(c) => resp'.out = "render_index" /\ resp'.books = {} ]_vars

\* An Add was sent to the login page while the store holds books.
C3_Witness ==
  /\ resp.out = "redirect_login"
  /\ resp.next = "/add"
  /\ books # {}

\* C4: a submitted rating is accepted exactly when it parses as a number in
\* [0, 10]: Add (new title, non-empty title and author) then creates the
\* book with that rating and Edit of an owned book commits it; any other
\* value creates no book and leaves the rating untouched.
C4_RatingAcceptedIffInRange ==
  [][ \A c \in Clients, r \in RatingInputs :
        session[c] # NoUser
        => /\ \A t \in TitleInputs \ {""}, a \in AuthorInputs \ {""} :
                ((~\E b \in books : b.title = t) /\ add(c, "POST", t, a, r))
                  => IF InClosedRange(r)
                     THEN \E b \in books' \ books :
                            b.title = t /\ b.author = a /\ b.rating = float(r)
                     ELSE books' = books
           /\ \A i \in UrlIds :
                ((\E b \in books : b.id = i /\ b.user_id = session[c])
                    /\ edit(c, "POST", i, r))
                  => IF InClosedRange(r)
                     THEN \E b \in books' : b.id = i /\ b.rating = float(r)
                     ELSE books' = books ]_vars

\* C5 as stated: every Login whose email matches no User, or matches one
\* whose stored hash the password does not verify against, flashes
\* 'Invalid email or password', redirects to login and changes no session,
\* user or book.
C5_FailedLoginFlashes ==
  [][ \/ /\ resp'.out = "redirect_login"
         /\ resp'.flash = "Invalid email or password"
         /\ session' = session /\ users' = users /\ books' = books
      \/ \A c \in Clients, e \in EmailInputs, p \in LoginPasswords :
           ~ /\ \A u \in users :
                  u.email = e => u.password.digest # <<u.password.salt, p>>
             /\ login(c, "POST", e, p) ]_vars

\* C5 amended: a Login that passes form validation (well-formed email,
\* non-empty password) and whose email matches no User, or whose password
\* does not verify, flashes 'Invalid email or password' and redirects to
\* login; a Login that fails form validation is answered with the login
\* form and no flash; in both cases no session, user or book changes.
C5_FailedLogin ==
  [][ \A c \in Clients, e \in EmailInputs, p \in LoginPasswords :
        (/\ \A u \in users :
              u.email = e => u.password.digest # <<u.password.salt, p>>
         /\ login(c, "POST", e, p))
        => /\ IF Email(e) /\ p # ""
              THEN resp'.out = "redirect_login"
                     /\ resp'.flash = "Invalid email or password"
              ELSE resp'.out = "render_login" /\ resp'.flash = ""
           /\ session' = session /\ users' = users /\ books' = books ]_vars

\* Every well-formed email is registered, so the Login that was just
\* refused named an existing User and a password that does not verify.
C5_Witness ==
  /\ resp.flash = "Invalid email or password"
  /\ {u.email : u \in users} = {e \in EmailInputs : Email(e)}

NoDupTitle == \A a, b \in books : a.title = b.title => a = b

\* C6: an Add (non-empty author, rating in [0, 10]) whose title is already
\* stored, whoever owns that book and whoever adds, creates no book, leaves
\* the stored books unchanged and redirects home with no error; with
\* requests served one at a time no two books share a title.
C6_DuplicateTitleSkipped ==
  [][ /\ NoDupTitle /\ NoDupTitle'
      /\ \A c \in Clients, t \in TitleInputs, a \in AuthorInputs \ {""},
            r \in RatingInputs :
           (/\ session[c] # NoUser
            /\ InClosedRange(r)
            /\ \E b \in books : b.title = t
            /\ add(c, "POST", t, a, r))
           => /\ books' = books
              /\ resp'.out = "redirect_home" /\ resp'.flash = "" ]_vars

\* C7: List by an authenticated user shows exactly the books whose owner id
\* is that user's id.
C7_ListIsOwnBooks ==
  [][ \A c \in Clients :
        (session[c] # NoUser /\ home(c))
        => /\ resp'.out = "render_index"
           /\ resp'.books = {b \in books : b.user_id = session[c]} ]_vars

\* Every browser is logged in, the store holds books, and the listing just
\* rendered is empty: a user without books saw none of the others' books.
C7_Witness ==
  /\ resp.out = "render_index"
  /\ resp.books = {}
  /\ books # {}
  /\ \A c \in Clients : session[c] # NoUser

\* C8: a valid Register with a new email creates exactly one User and
\* leaves the requester logged in as that User; an Add that follows in the
\* same session with a new title and a rating in [0, 10] is not sent to
\* login and creates exactly one book, owned by that User, with the
\* submitted title, author and rating, which is then among the User's books.
C8_RegisterThenAdd ==
  [][ /\ \A c \in Clients, q \in RegisterRequests, s \in Salts :
           (/\ Len(q[2]) >= 2 /\ Email(q[3]) /\ Len(q[4]) >= 6
            /\ ~\E u \in users : u.email = q[3]
            /\ register(c, q[1], q[2], q[3], q[4], s))
           => \E u \in users' :
                /\ users' = users \cup {u} /\ u \notin users
                /\ u.email = q[3] /\ u.name = q[2]
                /\ session'[c] = u.id
      /\ \A c \in Clients, t \in TitleInputs \ {""}, a \in AuthorInputs \ {""},
            r \in RatingInputs :
           (/\ session[c] # NoUser
            /\ resp.out = "redirect_home" /\ resp.flash = ""
            /\ {b \in books : b.user_id = session[c]} = {}
            /\ InClosedRange(r)
            /\ ~\E b \in books : b.title = t
            /\ add(c, "POST", t, a, r))
           => /\ resp'.out # "redirect_login"
              /\ \E b \in books' :
                   /\ books' = books \cup {b} /\ b \notin books
                   /\ b.title = t /\ b.author = a /\ b.rating = float(r)
                   /\ b.user_id = session[c]
                   /\ {x \in books' : x.user_id = session[c]} = {b} ]_vars

\* C9: the insert of an Add that passed its title check is not guarded: its
\* commit stores a book with its title whatever the store holds by then, so
\* two Adds that both checked before either committed both insert.
C9_CommitInsertsUnguarded ==
  [][ \A c \in Clients :
        (pending[c].op = "add" /\ pending'[c] = NoReq)
        => \E b \in books' \ books :
             b.title = pending[c].title /\ b.user_id = pending[c].user_id ]_vars

\* Two books with the same title are in the store.
C9_Witness ==
  \E a, b \in books : a # b /\ a.title = b.title

\* C10: a book's owner id never changes while the book exists; a
\* successful Edit changes only the rating of the addressed book and a
\* successful Delete removes only the addressed book; neither touches a
\* user.
C10_Frame ==
  [][ /\ \A b \in books, b2 \in books' : b.id = b2.id => b2.user_id = b.user_id
      /\ \/ resp'.out # "redirect_home"
         \/ resp'.flash # ""
         \/ /\ \A c \in Clients, i \in UrlIds, q \in EditRequests :
                 edit(c, q[1], i, q[2])
                 => /\ users' = users
                    /\ \E b \in books, b2 \in books' :
                         /\ b.id = i /\ b2.id = i
                         /\ b2.title = b.title /\ b2.author = b.author
                         /\ b2.user_id = b.user_id /\ b2.rating = float(q[2])
                         /\ books' \ {b2} = books \ {b}
            /\ \A c \in Clients, i \in UrlIds :
                 delete(c, i)
                 => /\ users' = users
                    /\ \E b \in books : b.id = i /\ books' = books \ {b} ]_vars

\* An Edit has just set a rating to 0 (ratings of 0 come from Edit alone)
\* while the same user owns a second book, which kept its rating of 10.
C10_Witness ==
  /\ resp.out = "redirect_home" /\ resp.flash = ""
  /\ \E a, b \in books :
       a # b /\ a.user_id = b.user_id /\ a.rating = 0 /\ b.rating = 1000
====
